---------------------------- MODULE Spec2Model ----------------------------
(***************************************************************************)
(* Model of the physics and scoring loop of the basketball arena           *)
(* (src/src/hw5.js): gameState, InputSystem (handleInput, shootBall,       *)
(* resetBall), PhysicsSystem (updateBallPhysics, checkBackboardCollision,  *)
(* checkHoopCollision, scoreBasket), isThreePointShot and animate.         *)
(*                                                                         *)
(* The program computes in IEEE doubles; the model computes in fixed point *)
(* on integers, every division truncating toward zero:                     *)
(*   lengths and positions   1 unit = 0.00001 m                            *)
(*   velocities              1 unit = 0.001 m/s                            *)
(*   times (deltaTime)       1 unit = 0.01 s   (one tick)                  *)
(*   shot power, errorFactor 1 unit = 0.0001                               *)
(*   damping factors         percent (0.7 is 70)                           *)
(* so that velocity * deltaTime is a position without rounding and         *)
(* GRAVITY * deltaTime is a velocity without rounding.                     *)
(***************************************************************************)
EXTENDS Integers, Sequences, FiniteSets, TLC

(***************************************************************************)
(* Program constants (hw5.js lines 21-46), in the units above.             *)
(***************************************************************************)
COURT_LENGTH == 2800000
COURT_WIDTH == 1500000
COURT_FLOOR_Y == 0
LINES_Y_OFFSET == 1000
RIM_Y == 305000
RIM_RADIUS == 22500
BACKBOARD_WIDTH == 180000
BACKBOARD_HEIGHT == 105000
BACKBOARD_DIST_FROM_BASELINE == 120000
POLE_RADIUS == 15000
BALL_RADIUS == 12130
\* -9.8 m/s^2 is -98 velocity units per tick
GRAVITY == -98
\* added to the position once per grounded frame, whatever deltaTime is
BALL_MOVEMENT_SPEED == 8000
MIN_SHOT_POWER == 1000
MAX_SHOT_POWER == 10000
POWER_STEP == 8
BOUNCE_DAMPING == 70
BACKBOARD_DAMP_FACTOR == 60
\* local constants of the functions that use them
backboardThickness == 8000
rimThickness == 2500
THREE_POINT_ARC_RADIUS == 675000
TIME_TO_RIM == 160
MAX_SHOOTING_DISTANCE == 2500000
SHOT_ERROR_SENSITIVITY == 4
INITIAL_SHOT_POWER == 5000

(***************************************************************************)
(* Arithmetic helpers: THREE.Vector3 and Math, on integers.                *)
(***************************************************************************)
Vec(a, b, c) == [x |-> a, y |-> b, z |-> c]

ZeroVec == Vec(0, 0, 0)

Abs(a) == IF a < 0 THEN -a ELSE a

Min(a, b) == IF a < b THEN a ELSE b

Max(a, b) == IF a > b THEN a ELSE b

\* a / b for b > 0, rounded toward zero (so that -v scales like v)
TruncDiv(a, b) == IF a >= 0 THEN a \div b ELSE -((-a) \div b)

RECURSIVE SqrtBetween(_, _, _)
\* the largest r in lo..hi with r*r <= n, given lo*lo <= n
SqrtBetween(n, lo, hi) ==
    IF lo >= hi THEN lo
    ELSE LET mid == (lo + hi + 1) \div 2
         IN IF mid * mid <= n THEN SqrtBetween(n, mid, hi)
            ELSE SqrtBetween(n, lo, mid - 1)

\* Math.sqrt, rounded down; the arguments of the model stay below 46340^2
Sqrt(n) == SqrtBetween(n, 0, 46340)

\* Vector3.length() squared, of a velocity
LengthSq(v) == v.x * v.x + v.y * v.y + v.z * v.z

\* v.length() < limit, for a limit small enough to square; a component at
\* or above the limit decides without squaring it
LengthBelow(v, limit) ==
    /\ Abs(v.x) < limit
    /\ Abs(v.y) < limit
    /\ Abs(v.z) < limit
    /\ LengthSq(v) < limit * limit

(***************************************************************************)
(* The two hoops: createHoop builds one assembly on the +x side, and the   *)
(* left hoop is the same group rotated by PI about y (x -> -x, z -> -z).   *)
(***************************************************************************)
Hoops == <<"right", "left">>

HoopSide(hoop) == IF hoop = "right" THEN 1 ELSE -1

poleX == COURT_LENGTH \div 2 + POLE_RADIUS + 50000

backboardX == poleX - POLE_RADIUS - BACKBOARD_DIST_FROM_BASELINE

backboardY == RIM_Y + BACKBOARD_HEIGHT \div 2 - 15000

connectorX == backboardX - 4000 - 7500

rimX == connectorX - 7500 - RIM_RADIUS

\* hoop.localToWorld(backboard.position)
BackboardPos(hoop) == Vec(HoopSide(hoop) * backboardX, backboardY, 0)

\* hoop.localToWorld(hoop.userData.rimPosition)
RimPos(hoop) == Vec(HoopSide(hoop) * rimX, RIM_Y, 0)

RestY == COURT_FLOOR_Y + BALL_RADIUS + LINES_Y_OFFSET

courtEdgeX == COURT_LENGTH \div 2 - BALL_RADIUS

courtEdgeZ == COURT_WIDTH \div 2 - BALL_RADIUS

(***************************************************************************)
(* isThreePointShot(shotPosition, targetHoopPos).  The horizontal distance *)
(* is compared squared, in millimetres.                                    *)
(***************************************************************************)
HorizontalDistSqMm(a, b) ==
    LET dx == TruncDiv(a.x - b.x, 100)
        dz == TruncDiv(a.z - b.z, 100)
    IN dx * dx + dz * dz

\* variant: the arc alone, without the straight lines of the corners
isThreePointShotArcOnly(shotPosition, targetHoopPos) ==
    LET arcMm == THREE_POINT_ARC_RADIUS \div 100
    IN HorizontalDistSqMm(shotPosition, targetHoopPos) >= arcMm * arcMm

isThreePointShot(shotPosition, targetHoopPos) ==
    LET arcMm == THREE_POINT_ARC_RADIUS \div 100
        THREE_POINT_STRAIGHT_LINE_Y == COURT_WIDTH \div 2 - 90000
    IN IF HorizontalDistSqMm(shotPosition, targetHoopPos) >= arcMm * arcMm
       THEN IF Abs(shotPosition.z) <= THREE_POINT_STRAIGHT_LINE_Y
            THEN TRUE
            ELSE Abs(shotPosition.x - targetHoopPos.x) >= THREE_POINT_ARC_RADIUS
       ELSE FALSE

(***************************************************************************)
(* gameState, as constructed (hw5.js lines 561-589).  ballRotation,        *)
(* ballAngularVelocity, isMoving, lastBallPosition and keys feed only the  *)
(* rendering; keys is an input of each frame.                              *)
(***************************************************************************)
InitialGameState ==
    [ ballPosition |-> Vec(0, RestY, 0),
      ballVelocity |-> ZeroVec,
      shotPower |-> INITIAL_SHOT_POWER,
      isShooting |-> FALSE,
      score |-> 0,
      shotAttempts |-> 0,
      shotsMade |-> 0,
      lastShotResult |-> "",
      shotFeedbackTimer |-> 0,
      shotOrigin |-> ZeroVec,
      isThreePointer |-> FALSE ]

(***************************************************************************)
(* InputSystem.shootBall                                                   *)
(***************************************************************************)
DistSqMm(a, b) ==
    LET dy == TruncDiv(a.y - b.y, 100)
    IN HorizontalDistSqMm(a, b) + dy * dy

\* the nearest hoop; a tie goes to the left hoop
TargetHoop(g) ==
    IF DistSqMm(g.ballPosition, RimPos("right")) < DistSqMm(g.ballPosition, RimPos("left"))
    THEN "right" ELSE "left"

\* idealPower of a shot over horizontalDistance
IdealPower(horizontalDistance) ==
    MIN_SHOT_POWER
    + TruncDiv(Min(MAX_SHOOTING_DISTANCE, horizontalDistance) * ((MAX_SHOT_POWER - MIN_SHOT_POWER) \div 1000),
               MAX_SHOOTING_DISTANCE \div 1000)

\* errorFactor, 10000 being 1.0
ErrorFactor(shotPower, horizontalDistance) ==
    10000 + TruncDiv((shotPower - IdealPower(horizontalDistance)) * SHOT_ERROR_SENSITIVITY, 10)

\* variant: a straight line to the rim, without the gravity term
PerfectVelocityFlat(toHoop) ==
    Vec(TruncDiv(toHoop.x, TIME_TO_RIM),
        TruncDiv(toHoop.y, TIME_TO_RIM),
        TruncDiv(toHoop.z, TIME_TO_RIM))

\* perfectVelocity: lands on the rim center after TIME_TO_RIM under GRAVITY
PerfectVelocity(toHoop) ==
    Vec(TruncDiv(toHoop.x, TIME_TO_RIM),
        TruncDiv(2 * toHoop.y - GRAVITY * TIME_TO_RIM * TIME_TO_RIM, 2 * TIME_TO_RIM),
        TruncDiv(toHoop.z, TIME_TO_RIM))

LaunchVelocity(ballPosition, shotPower, targetHoopPos) ==
    LET toHoop == Vec(targetHoopPos.x - ballPosition.x,
                      targetHoopPos.y - ballPosition.y,
                      targetHoopPos.z - ballPosition.z)
        horizontalDistance == 100 * Sqrt(HorizontalDistSqMm(targetHoopPos, ballPosition))
        errorFactor == ErrorFactor(shotPower, horizontalDistance)
        perfect == PerfectVelocity(toHoop)
    IN Vec(TruncDiv(perfect.x * errorFactor, 10000),
           TruncDiv(perfect.y * errorFactor, 10000),
           TruncDiv(perfect.z * errorFactor, 10000))

(***************************************************************************)
(* ShotPredictor.calculateTrajectory: the launch velocity the prediction   *)
(* arc is drawn from, with the predictor's own TIME_TO_RIM (in ticks) and  *)
(* its own error sensitivity (in tenths).                                  *)
(***************************************************************************)
PREDICTOR_TIME_TO_RIM == 140
PREDICTOR_ERROR_SENSITIVITY == 5

PredictorErrorFactor(shotPower, horizontalDistance) ==
    10000 + TruncDiv((shotPower - IdealPower(horizontalDistance)) * PREDICTOR_ERROR_SENSITIVITY, 10)

PredictorPerfectVelocity(toHoop) ==
    Vec(TruncDiv(toHoop.x, PREDICTOR_TIME_TO_RIM),
        TruncDiv(2 * toHoop.y - GRAVITY * PREDICTOR_TIME_TO_RIM * PREDICTOR_TIME_TO_RIM,
                 2 * PREDICTOR_TIME_TO_RIM),
        TruncDiv(toHoop.z, PREDICTOR_TIME_TO_RIM))

PredictedVelocity(ballPosition, shotPower, targetPosition) ==
    LET toHoop == Vec(targetPosition.x - ballPosition.x,
                      targetPosition.y - ballPosition.y,
                      targetPosition.z - ballPosition.z)
        horizontalDistance == 100 * Sqrt(HorizontalDistSqMm(targetPosition, ballPosition))
        errorFactor == PredictorErrorFactor(shotPower, horizontalDistance)
        perfect == PredictorPerfectVelocity(toHoop)
    IN Vec(TruncDiv(perfect.x * errorFactor, 10000),
           TruncDiv(perfect.y * errorFactor, 10000),
           TruncDiv(perfect.z * errorFactor, 10000))

\* variant: Math.min where the code has Math.max
FeedbackTimeMin == Min(200, TIME_TO_RIM + 50)

\* Math.max(2.0, TIME_TO_RIM + 0.5), in ticks
FeedbackTime == Max(200, TIME_TO_RIM + 50)

\* variant: a release that does not count as an attempt
shootBallUncounted(g) ==
    IF g.isShooting THEN g
    ELSE LET targetHoopPos == RimPos(TargetHoop(g))
         IN [g EXCEPT
               !.shotOrigin = g.ballPosition,
               !.isThreePointer = isThreePointShot(g.ballPosition, targetHoopPos),
               !.ballVelocity = LaunchVelocity(g.ballPosition, g.shotPower, targetHoopPos),
               !.isShooting = TRUE,
               !.lastShotResult = "",
               !.shotFeedbackTimer = FeedbackTime]

shootBall(g) ==
    IF g.isShooting THEN g
    ELSE LET targetHoopPos == RimPos(TargetHoop(g))
         IN [g EXCEPT
               !.shotOrigin = g.ballPosition,
               !.isThreePointer = isThreePointShot(g.ballPosition, targetHoopPos),
               !.ballVelocity = LaunchVelocity(g.ballPosition, g.shotPower, targetHoopPos),
               !.isShooting = TRUE,
               !.shotAttempts = g.shotAttempts + 1,
               !.lastShotResult = "",
               !.shotFeedbackTimer = FeedbackTime]

\* variant: a reset that also clears the statistics
resetBallClearsStats(g) ==
    [g EXCEPT
       !.ballPosition = Vec(0, RestY, 0),
       !.ballVelocity = ZeroVec,
       !.shotPower = INITIAL_SHOT_POWER,
       !.isShooting = FALSE,
       !.lastShotResult = "",
       !.score = 0,
       !.shotAttempts = 0,
       !.shotsMade = 0]

\* variant: a reset that also clears the classification of the shot
resetBallClearing(g) ==
    [g EXCEPT
       !.ballPosition = Vec(0, RestY, 0),
       !.ballVelocity = ZeroVec,
       !.shotPower = INITIAL_SHOT_POWER,
       !.isShooting = FALSE,
       !.lastShotResult = "",
       !.isThreePointer = FALSE]

(***************************************************************************)
(* InputSystem.resetBall                                                   *)
(***************************************************************************)
resetBall(g) ==
    [g EXCEPT
       !.ballPosition = Vec(0, RestY, 0),
       !.ballVelocity = ZeroVec,
       !.shotPower = INITIAL_SHOT_POWER,
       !.isShooting = FALSE,
       !.lastShotResult = ""]

(***************************************************************************)
(* InputSystem.handleInput(deltaTime): keys is the set of key codes held.  *)
(* deltaTime only scales the rotation, which the model leaves out.         *)
(***************************************************************************)
Clamp(lo, hi, a) == Max(lo, Min(hi, a))

MoveVector(keys) ==
    Vec(IF "ArrowRight" \in keys THEN BALL_MOVEMENT_SPEED
        ELSE IF "ArrowLeft" \in keys THEN -BALL_MOVEMENT_SPEED ELSE 0,
        0,
        IF "ArrowDown" \in keys THEN BALL_MOVEMENT_SPEED
        ELSE IF "ArrowUp" \in keys THEN -BALL_MOVEMENT_SPEED ELSE 0)

\* variant: the power adjusted without Math.min and Math.max
AdjustPowerUnclamped(shotPower, keys) ==
    LET up == IF "KeyW" \in keys THEN shotPower + POWER_STEP ELSE shotPower
    IN IF "KeyS" \in keys THEN up - POWER_STEP ELSE up

AdjustPower(shotPower, keys) ==
    LET up == IF "KeyW" \in keys THEN Min(MAX_SHOT_POWER, shotPower + POWER_STEP)
              ELSE shotPower
    IN IF "KeyS" \in keys THEN Max(MIN_SHOT_POWER, up - POWER_STEP) ELSE up

\* variant: without the early return while the ball is in flight
handleInputInFlight(g, keys) ==
    LET moved == keys \cap {"ArrowLeft", "ArrowRight", "ArrowUp", "ArrowDown"} # {}
        moveVector == MoveVector(keys)
        newPosition ==
            Vec(Clamp(-courtEdgeX, courtEdgeX, g.ballPosition.x + moveVector.x),
                g.ballPosition.y,
                Clamp(-courtEdgeZ, courtEdgeZ, g.ballPosition.z + moveVector.z))
    IN [g EXCEPT
          !.ballPosition = IF moved THEN newPosition ELSE g.ballPosition,
          !.shotPower = AdjustPower(g.shotPower, keys)]

handleInput(g, keys) ==
    IF g.isShooting THEN g
    ELSE LET moved == keys \cap {"ArrowLeft", "ArrowRight", "ArrowUp", "ArrowDown"} # {}
             moveVector == MoveVector(keys)
             newPosition ==
                 Vec(Clamp(-courtEdgeX, courtEdgeX, g.ballPosition.x + moveVector.x),
                     g.ballPosition.y,
                     Clamp(-courtEdgeZ, courtEdgeZ, g.ballPosition.z + moveVector.z))
         IN [g EXCEPT
               !.ballPosition = IF moved THEN newPosition ELSE g.ballPosition,
               !.shotPower = AdjustPower(g.shotPower, keys)]

(***************************************************************************)
(* PhysicsSystem.updateBallPhysics(deltaTime), in the order of the code:   *)
(* integration, floor, walls, then the backboard and the hoop tests.       *)
(***************************************************************************)
\* v * percent / 100
Damp(v, percent) == TruncDiv(v * percent, 100)

Integrate(g, deltaTime) ==
    LET vy == g.ballVelocity.y + GRAVITY * deltaTime
    IN [g EXCEPT
          !.ballVelocity = Vec(g.ballVelocity.x, vy, g.ballVelocity.z),
          !.ballPosition = Vec(g.ballPosition.x + g.ballVelocity.x * deltaTime,
                               g.ballPosition.y + vy * deltaTime,
                               g.ballPosition.z + g.ballVelocity.z * deltaTime)]

FloorHit(g) == g.ballPosition.y <= RestY

\* the ball stops when its bounce is too slow
TooSlow(v) == Abs(v.y) < 100 /\ LengthBelow(v, 500)

\* variant: a bounce that damps the vertical velocity only
FloorCollisionVerticalOnly(g) ==
    IF ~FloorHit(g) THEN g
    ELSE LET bounced == Vec(g.ballVelocity.x,
                            Damp(-g.ballVelocity.y, BOUNCE_DAMPING),
                            g.ballVelocity.z)
         IN [g EXCEPT
               !.ballPosition = Vec(g.ballPosition.x, RestY, g.ballPosition.z),
               !.ballVelocity = IF TooSlow(bounced) THEN ZeroVec ELSE bounced,
               !.isShooting = ~TooSlow(bounced)]

\* variant: the bounce without the clamp of position.y
FloorCollisionNoClamp(g) ==
    IF ~FloorHit(g) THEN g
    ELSE LET bounced == Vec(Damp(g.ballVelocity.x, BOUNCE_DAMPING),
                            Damp(-g.ballVelocity.y, BOUNCE_DAMPING),
                            Damp(g.ballVelocity.z, BOUNCE_DAMPING))
         IN [g EXCEPT
               !.ballVelocity = IF TooSlow(bounced) THEN ZeroVec ELSE bounced,
               !.isShooting = ~TooSlow(bounced)]

\* variant: the ball that stops keeps the velocity of its last bounce
FloorCollisionRestMoving(g) ==
    IF ~FloorHit(g) THEN g
    ELSE LET bounced == Vec(Damp(g.ballVelocity.x, BOUNCE_DAMPING),
                            Damp(-g.ballVelocity.y, BOUNCE_DAMPING),
                            Damp(g.ballVelocity.z, BOUNCE_DAMPING))
         IN [g EXCEPT
               !.ballPosition = Vec(g.ballPosition.x, RestY, g.ballPosition.z),
               !.ballVelocity = bounced,
               !.isShooting = ~TooSlow(bounced)]

FloorCollision(g) ==
    IF ~FloorHit(g) THEN g
    ELSE LET bounced == Vec(Damp(g.ballVelocity.x, BOUNCE_DAMPING),
                            Damp(-g.ballVelocity.y, BOUNCE_DAMPING),
                            Damp(g.ballVelocity.z, BOUNCE_DAMPING))
         IN [g EXCEPT
               !.ballPosition = Vec(g.ballPosition.x, RestY, g.ballPosition.z),
               !.ballVelocity = IF TooSlow(bounced) THEN ZeroVec ELSE bounced,
               !.isShooting = ~TooSlow(bounced)]

WallHitX(g) == Abs(g.ballPosition.x) >= courtEdgeX

WallHitZ(g) == Abs(g.ballPosition.z) >= courtEdgeZ

\* variant: the walls reverse the velocity without clamping the position
WallCollisionNoClamp(g) ==
    LET v == g.ballVelocity
    IN [g EXCEPT
          !.ballVelocity = Vec(IF WallHitX(g) THEN Damp(-v.x, BOUNCE_DAMPING) ELSE v.x,
                               v.y,
                               IF WallHitZ(g) THEN Damp(-v.z, BOUNCE_DAMPING) ELSE v.z)]

WallCollision(g) ==
    LET p == g.ballPosition
        v == g.ballVelocity
    IN [g EXCEPT
          !.ballPosition = Vec(Clamp(-courtEdgeX, courtEdgeX, p.x), p.y,
                               Clamp(-courtEdgeZ, courtEdgeZ, p.z)),
          !.ballVelocity = Vec(IF WallHitX(g) THEN Damp(-v.x, BOUNCE_DAMPING) ELSE v.x,
                               v.y,
                               IF WallHitZ(g) THEN Damp(-v.z, BOUNCE_DAMPING) ELSE v.z)]

(***************************************************************************)
(* PhysicsSystem.checkBackboardCollision: one hoop, then both in order.    *)
(***************************************************************************)
collisionThreshold == backboardThickness \div 2 + BALL_RADIUS

BackboardHit(g, hoop) ==
    LET b == BackboardPos(hoop)
        p == g.ballPosition
    IN /\ Abs(p.y - b.y) <= BACKBOARD_HEIGHT \div 2 + BALL_RADIUS
       /\ Abs(p.z - b.z) <= BACKBOARD_WIDTH \div 2 + BALL_RADIUS
       /\ Abs(p.x - b.x) <= collisionThreshold

\* variant: the bounce off the board keeps the depth component's direction
BackboardBounceNoReverse(g, hoop) ==
    LET b == BackboardPos(hoop)
        p == g.ballPosition
        v == g.ballVelocity
        hitFromFront == IF hoop = "right" THEN p.x < b.x ELSE p.x > b.x
        faceX == IF hitFromFront THEN b.x - HoopSide(hoop) * collisionThreshold
                 ELSE b.x + HoopSide(hoop) * collisionThreshold
    IN [g EXCEPT
          !.ballPosition = Vec(faceX, p.y, p.z),
          !.ballVelocity =
              Vec(TruncDiv(v.x * BOUNCE_DAMPING * BACKBOARD_DAMP_FACTOR, 10000),
                  TruncDiv(v.y * ((BOUNCE_DAMPING * 90 * BACKBOARD_DAMP_FACTOR) \div 1000), 1000),
                  TruncDiv(v.z * ((BOUNCE_DAMPING * 95 * BACKBOARD_DAMP_FACTOR) \div 1000), 1000))]

BackboardBounce(g, hoop) ==
    LET b == BackboardPos(hoop)
        p == g.ballPosition
        v == g.ballVelocity
        hitFromFront == IF hoop = "right" THEN p.x < b.x ELSE p.x > b.x
        \* the face on the court side is the front
        faceX == IF hitFromFront THEN b.x - HoopSide(hoop) * collisionThreshold
                 ELSE b.x + HoopSide(hoop) * collisionThreshold
    IN [g EXCEPT
          !.ballPosition = Vec(faceX, p.y, p.z),
          !.ballVelocity =
              Vec(TruncDiv(-v.x * BOUNCE_DAMPING * BACKBOARD_DAMP_FACTOR, 10000),
                  TruncDiv(v.y * ((BOUNCE_DAMPING * 90 * BACKBOARD_DAMP_FACTOR) \div 1000), 1000),
                  TruncDiv(v.z * ((BOUNCE_DAMPING * 95 * BACKBOARD_DAMP_FACTOR) \div 1000), 1000))]

BackboardStep(g, hoop) == IF BackboardHit(g, hoop) THEN BackboardBounce(g, hoop) ELSE g

checkBackboardCollision(g) == BackboardStep(BackboardStep(g, "right"), "left")

(***************************************************************************)
(* PhysicsSystem.checkHoopCollision and scoreBasket.                       *)
(***************************************************************************)
\* both rim tests fail beyond the band; squares are taken only this near
NearRim(g, hoop) ==
    /\ Abs(g.ballPosition.x - RimPos(hoop).x) < RIM_RADIUS + rimThickness
    /\ Abs(g.ballPosition.z - RimPos(hoop).z) < RIM_RADIUS + rimThickness

RimDistSq(g, hoop) ==
    LET dx == g.ballPosition.x - RimPos(hoop).x
        dz == g.ballPosition.z - RimPos(hoop).z
    IN dx * dx + dz * dz

\* horizontalDistance < RIM_RADIUS - BALL_RADIUS * 0.5 && verticalDistance < BALL_RADIUS
InScoringDisc(g, hoop) ==
    /\ NearRim(g, hoop)
    /\ RimDistSq(g, hoop) < (RIM_RADIUS - BALL_RADIUS \div 2) * (RIM_RADIUS - BALL_RADIUS \div 2)
    /\ Abs(g.ballPosition.y - RimPos(hoop).y) < BALL_RADIUS

\* variant: the made-basket test without the check of the direction
MadeBasketAnyDirection(g, hoop) == InScoringDisc(g, hoop)

MadeBasket(g, hoop) == InScoringDisc(g, hoop) /\ g.ballVelocity.y < 0

\* variant: the rim band without its inner bound
RimBandNoInnerBound(g, hoop) ==
    /\ NearRim(g, hoop)
    /\ Abs(g.ballPosition.y - RimPos(hoop).y) < BALL_RADIUS + rimThickness
    /\ RimDistSq(g, hoop) < (RIM_RADIUS + rimThickness) * (RIM_RADIUS + rimThickness)

RimBand(g, hoop) ==
    /\ NearRim(g, hoop)
    /\ Abs(g.ballPosition.y - RimPos(hoop).y) < BALL_RADIUS + rimThickness
    /\ RimDistSq(g, hoop) > (RIM_RADIUS - BALL_RADIUS) * (RIM_RADIUS - BALL_RADIUS)
    /\ RimDistSq(g, hoop) < (RIM_RADIUS + rimThickness) * (RIM_RADIUS + rimThickness)

(***************************************************************************)
(* ParticleSystem.createScoreExplosion, by the number of live particles.   *)
(* The constructor never assigns performanceLevel, so it is undefined, the *)
(* bound of the loop, particleCount * performanceLevel, is NaN, and        *)
(* i < NaN is false.  An assigned level is the set of its one value.       *)
(***************************************************************************)
performanceLevel == {}

\* the iterations of for (let i = 0; i < count * this.performanceLevel; i++)
ExplosionIterations(count) ==
    IF performanceLevel = {} THEN 0
    ELSE count * (CHOOSE level \in performanceLevel : TRUE)

createScoreExplosion(particles, isThreePointer) ==
    particles + ExplosionIterations(IF isThreePointer THEN 75 ELSE 50)

(***************************************************************************)
(* GameUI.updateScore: the accuracy shown, Math.round((made / attempts) *  *)
(* 100), or 0 before the first attempt.  Math.round rounds halves up.  It  *)
(* is called after every write of the counters (scoreBasket, shootBall,    *)
(* start-up), so the page always shows the accuracy of the present state.  *)
(***************************************************************************)
updateScoreAccuracy(attempts, made) ==
    IF attempts > 0 THEN (200 * made + attempts) \div (2 * attempts) ELSE 0

\* variant: every basket worth 2, whatever the classification of the shot
scoreBasketAlwaysTwo(g) ==
    IF g.lastShotResult # "made"
    THEN [g EXCEPT
            !.score = g.score + 2,
            !.shotsMade = g.shotsMade + 1,
            !.lastShotResult = "made"]
    ELSE g

\* variant: scoreBasket without its guard
scoreBasketUnguarded(g) ==
    [g EXCEPT
       !.score = g.score + (IF g.isThreePointer THEN 3 ELSE 2),
       !.shotsMade = g.shotsMade + 1,
       !.lastShotResult = "made"]

scoreBasket(g) ==
    IF g.lastShotResult # "made"
    THEN [g EXCEPT
            !.score = g.score + (IF g.isThreePointer THEN 3 ELSE 2),
            !.shotsMade = g.shotsMade + 1,
            !.lastShotResult = "made"]
    ELSE g

\* the unit normal from the rim center to the ball, 10000 being 1.0;
\* Vector3.normalize divides by length() || 1
CollisionNormal(g, hoop) ==
    LET dx == g.ballPosition.x - RimPos(hoop).x
        dz == g.ballPosition.z - RimPos(hoop).z
        horizontalDistance == Max(1, Sqrt(RimDistSq(g, hoop)))
    IN Vec(TruncDiv(dx * 10000, horizontalDistance), 0,
           TruncDiv(dz * 10000, horizontalDistance))

\* Vector3.reflect: v - 2 (v . n) n
Reflect(v, n) ==
    LET dot == TruncDiv(v.x * n.x + v.z * n.z, 10000)
    IN Vec(v.x - TruncDiv(2 * dot * n.x, 10000), v.y,
           v.z - TruncDiv(2 * dot * n.z, 10000))

\* variant: the bounce leaves the ball where it touched the rim
RimBounceInPlace(g, hoop) ==
    LET n == CollisionNormal(g, hoop)
        r == Reflect(g.ballVelocity, n)
        damped == Vec(Damp(r.x, BOUNCE_DAMPING), Damp(r.y, BOUNCE_DAMPING),
                      Damp(r.z, BOUNCE_DAMPING))
    IN [g EXCEPT
          !.ballVelocity = Vec(damped.x,
                               Abs(TruncDiv(Damp(damped.y, BOUNCE_DAMPING), 2)) + 500,
                               damped.z)]

RimBounce(g, hoop) ==
    LET n == CollisionNormal(g, hoop)
        horizontalDistance == Sqrt(RimDistSq(g, hoop))
        r == Reflect(g.ballVelocity, n)
        damped == Vec(Damp(r.x, BOUNCE_DAMPING), Damp(r.y, BOUNCE_DAMPING),
                      Damp(r.z, BOUNCE_DAMPING))
        reposition == RIM_RADIUS + BALL_RADIUS - horizontalDistance + 1000
    IN [g EXCEPT
          !.ballVelocity = Vec(damped.x,
                               Abs(TruncDiv(Damp(damped.y, BOUNCE_DAMPING), 2)) + 500,
                               damped.z),
          !.ballPosition = Vec(g.ballPosition.x + TruncDiv(n.x * reposition, 10000),
                               g.ballPosition.y,
                               g.ballPosition.z + TruncDiv(n.z * reposition, 10000))]

\* variant: the rim band tested before the made basket
HoopStepBandFirst(g, hoop) ==
    IF RimBand(g, hoop) THEN RimBounce(g, hoop)
    ELSE IF MadeBasket(g, hoop) THEN scoreBasket(g)
    ELSE g

HoopStep(g, hoop) ==
    IF MadeBasket(g, hoop) THEN scoreBasket(g)
    ELSE IF RimBand(g, hoop) THEN RimBounce(g, hoop)
    ELSE g

checkHoopCollision(g) == HoopStep(HoopStep(g, "right"), "left")

\* the state after each phase of the physics of a frame, for a ball in
\* flight: the right hoop is tested before the left one
PhysicsTrace(g, deltaTime) ==
    LET integrated == Integrate(g, deltaTime)
        floored == FloorCollision(integrated)
        walled == WallCollision(floored)
        boardRight == BackboardStep(walled, "right")
        boardLeft == BackboardStep(boardRight, "left")
        hoopRight == HoopStep(boardLeft, "right")
        hoopLeft == HoopStep(hoopRight, "left")
    IN [ integrated |-> integrated, floored |-> floored, walled |-> walled,
         boardRight |-> boardRight, boardLeft |-> boardLeft,
         hoopRight |-> hoopRight, hoopLeft |-> hoopLeft ]

\* variant: the physics without the test of isShooting
updateBallPhysicsUnguarded(g, deltaTime) == PhysicsTrace(g, deltaTime).hoopLeft

updateBallPhysics(g, deltaTime) ==
    IF g.isShooting THEN PhysicsTrace(g, deltaTime).hoopLeft
    ELSE g

(***************************************************************************)
(* animate: one frame.  The feedback countdown runs after the physics.     *)
(***************************************************************************)
\* variant: the countdown marks the attempt missed whatever its result is
FeedbackTimeoutOverwrites(g, deltaTime) ==
    IF g.shotFeedbackTimer > 0
    THEN LET left == g.shotFeedbackTimer - deltaTime
         IN [g EXCEPT
               !.shotFeedbackTimer = left,
               !.lastShotResult = IF left <= 0 THEN "missed" ELSE g.lastShotResult]
    ELSE g

\* variant: the countdown expires only below zero
FeedbackTimeoutStrict(g, deltaTime) ==
    IF g.shotFeedbackTimer > 0
    THEN LET left == g.shotFeedbackTimer - deltaTime
         IN [g EXCEPT
               !.shotFeedbackTimer = left,
               !.lastShotResult = IF left < 0 /\ g.lastShotResult = ""
                                  THEN "missed" ELSE g.lastShotResult]
    ELSE g

FeedbackTimeout(g, deltaTime) ==
    IF g.shotFeedbackTimer > 0
    THEN LET left == g.shotFeedbackTimer - deltaTime
         IN [g EXCEPT
               !.shotFeedbackTimer = left,
               !.lastShotResult = IF left <= 0 /\ g.lastShotResult = ""
                                  THEN "missed" ELSE g.lastShotResult]
    ELSE g

\* variant: the countdown handled before the physics of the frame
AnimatePhasesTimeoutFirst(g, keys, deltaTime) ==
    LET afterInput == handleInput(g, keys)
        afterTimeout == FeedbackTimeout(afterInput, deltaTime)
    IN <<afterInput, afterTimeout, updateBallPhysics(afterTimeout, deltaTime)>>

\* gameState after each phase of a frame, in the order animate runs them:
\* handleInput, updateBallPhysics, the feedback countdown
AnimatePhases(g, keys, deltaTime) ==
    LET afterInput == handleInput(g, keys)
        afterPhysics == updateBallPhysics(afterInput, deltaTime)
    IN <<afterInput, afterPhysics, FeedbackTimeout(afterPhysics, deltaTime)>>

animate(g, keys, deltaTime) == AnimatePhases(g, keys, deltaTime)[3]

(***************************************************************************)
(* Bounds of the model and the inputs the environment draws from.          *)
(***************************************************************************)
\* accepted shots per behaviour
MaxAttempts == 2
\* grounded frames in which a held key moves the ball or changes the power
MaxInputFrames == 1

\* frame periods, in ticks: a stalled clock, 20 frames a second, and a
\* frame that took 2.2 s (longer than the feedback countdown)
DeltaTimes == {0, 5, 220}

\* sets of keys held during a frame: none; opposite arrows together (the
\* right one wins) with an increase of power; and increase and decrease of
\* power together
KeySets ==
    { {}, {"ArrowLeft", "ArrowRight", "ArrowUp", "KeyW"}, {"ArrowDown", "KeyW", "KeyS"} }

\* every combination of the power keys, with and without a movement key
PowerKeySets == SUBSET {"ArrowLeft", "KeyW", "KeyS"}

\* where the ball stands and the power it has when the behaviour starts:
\* <<frames of ArrowRight (negative: ArrowLeft), frames of ArrowDown,
\* frames of KeyW (negative: KeyS)>> held since construction
StartInputs ==
    { <<0, 0, 0>>, <<-36, 0, 360>>, <<132, 0, 125>>, <<-81, 0, 280>>,
      <<-175, 0, -500>>, <<163, 0, 625>> }

StartState(frames) ==
    [InitialGameState EXCEPT
       !.ballPosition = Vec(Clamp(-courtEdgeX, courtEdgeX, frames[1] * BALL_MOVEMENT_SPEED),
                            RestY,
                            Clamp(-courtEdgeZ, courtEdgeZ, frames[2] * BALL_MOVEMENT_SPEED)),
       !.shotPower = Clamp(MIN_SHOT_POWER, MAX_SHOT_POWER,
                           INITIAL_SHOT_POWER + frames[3] * POWER_STEP)]

(***************************************************************************)
(* State.  gameState is the program's; the others record the last step     *)
(* and the history the properties speak of.                                *)
(***************************************************************************)
VARIABLES
    gameState,       \* the gameState object
    ev,              \* what the last step was and what its physics met
    flightDt,        \* the frame period of the flight in progress, -1 when there is none yet
    inputFrames,     \* grounded frames so far in which input changed the state
    attemptScores,   \* baskets registered since the last accepted shoot or reset
    attemptMadeFrames, \* frames of this attempt that met the made-basket condition, up to 2
    sinceReset       \* a reset happened and no shoot was accepted since

vars == <<gameState, ev, flightDt, inputFrames, attemptScores, attemptMadeFrames, sinceReset>>

\* deltaTime is that of a frame in flight; a bounce records the squared
\* speed, and the squared horizontal speed, before and after it
NoEvents ==
    [ op |-> "init", deltaTime |-> 0, inFlight |-> FALSE,
      floor |-> FALSE, wall |-> FALSE, backboard |-> {}, rim |-> {},
      made |-> {}, scored |-> {}, ascending |-> {}, bounces |-> {} ]

HorizontalSq(v) == v.x * v.x + v.z * v.z

Bounce(kind, before, after) ==
    [ kind |-> kind,
      before |-> LengthSq(before.ballVelocity),
      after |-> LengthSq(after.ballVelocity),
      hBefore |-> HorizontalSq(before.ballVelocity),
      hAfter |-> HorizontalSq(after.ballVelocity) ]

\* what the physics of one frame met: t is the PhysicsTrace of the frame
PhysicsEvents(t, deltaTime) ==
    LET atBoard == [hoop \in {"right", "left"} |->
                       IF hoop = "right" THEN t.walled ELSE t.boardRight]
        afterBoard == [hoop \in {"right", "left"} |->
                          IF hoop = "right" THEN t.boardRight ELSE t.boardLeft]
        atHoop == [hoop \in {"right", "left"} |->
                      IF hoop = "right" THEN t.boardLeft ELSE t.hoopRight]
        afterHoop == [hoop \in {"right", "left"} |->
                         IF hoop = "right" THEN t.hoopRight ELSE t.hoopLeft]
        boards == {hoop \in {"right", "left"} : BackboardHit(atBoard[hoop], hoop)}
        mades == {hoop \in {"right", "left"} : MadeBasket(atHoop[hoop], hoop)}
        rims == {hoop \in {"right", "left"} :
                    afterHoop[hoop].ballVelocity # atHoop[hoop].ballVelocity
                    \/ afterHoop[hoop].ballPosition # atHoop[hoop].ballPosition}
        walls == WallHitX(t.floored) \/ WallHitZ(t.floored)
    IN [ op |-> "frame", deltaTime |-> deltaTime, inFlight |-> TRUE,
         floor |-> FloorHit(t.integrated),
         wall |-> walls,
         backboard |-> boards,
         rim |-> rims,
         made |-> mades,
         scored |-> {hoop \in {"right", "left"} :
                        afterHoop[hoop].score # atHoop[hoop].score},
         ascending |-> {hoop \in {"right", "left"} :
                           InScoringDisc(atHoop[hoop], hoop)
                           /\ atHoop[hoop].ballVelocity.y >= 0},
         bounces |->
             (IF FloorHit(t.integrated) THEN {Bounce("floor", t.integrated, t.floored)} ELSE {})
             \cup (IF walls THEN {Bounce("wall", t.floored, t.walled)} ELSE {})
             \cup {Bounce("backboard", atBoard[hoop], afterBoard[hoop]) : hoop \in boards}
             \cup {Bounce("rim", atHoop[hoop], afterHoop[hoop]) : hoop \in rims} ]

FrameEvents(g, keys, deltaTime) ==
    LET g0 == handleInput(g, keys)
    IN IF g0.isShooting THEN PhysicsEvents(PhysicsTrace(g0, deltaTime), deltaTime)
       ELSE [NoEvents EXCEPT !.op = "frame"]

Init ==
    /\ gameState \in {StartState(frames) : frames \in StartInputs}
    /\ ev = NoEvents
    /\ flightDt = -1
    /\ inputFrames = 0
    /\ attemptScores = 0
    /\ attemptMadeFrames = 0
    /\ sinceReset = FALSE

(***************************************************************************)
(* Actions: a frame of animate, and the keydown handlers of Space and R.   *)
(***************************************************************************)
Frame(deltaTime, keys) ==
    LET e == FrameEvents(gameState, keys, deltaTime)
        inFlight == gameState.isShooting
    IN /\ inFlight => (flightDt = -1 \/ flightDt = deltaTime)
       /\ handleInput(gameState, keys) # gameState => inputFrames < MaxInputFrames
       /\ gameState' = animate(gameState, keys, deltaTime)
       /\ ev' = e
       /\ flightDt' = IF gameState'.isShooting THEN deltaTime ELSE -1
       /\ inputFrames' = IF handleInput(gameState, keys) # gameState
                         THEN inputFrames + 1 ELSE inputFrames
       /\ attemptScores' = attemptScores + Cardinality(e.scored)
       /\ attemptMadeFrames' = IF e.made # {} THEN Min(2, attemptMadeFrames + 1)
                               ELSE attemptMadeFrames
       /\ UNCHANGED sinceReset

\* onKeyDown, case "Space": a shoot in flight returns at once
Shoot ==
    /\ gameState.isShooting \/ gameState.shotAttempts < MaxAttempts
    /\ gameState' = shootBall(gameState)
    /\ IF gameState.isShooting
       THEN UNCHANGED <<ev, attemptScores, attemptMadeFrames, sinceReset>>
       ELSE /\ ev' = [NoEvents EXCEPT !.op = "shoot"]
            /\ attemptScores' = 0
            /\ attemptMadeFrames' = 0
            /\ sinceReset' = FALSE
    /\ UNCHANGED <<flightDt, inputFrames>>

\* onKeyDown, case "KeyR"
Reset ==
    /\ gameState' = resetBall(gameState)
    /\ ev' = [NoEvents EXCEPT !.op = "reset"]
    /\ attemptScores' = 0
    /\ attemptMadeFrames' = 0
    /\ sinceReset' = TRUE
    /\ flightDt' = -1
    /\ UNCHANGED inputFrames

Next ==
    \/ \E deltaTime \in DeltaTimes, keys \in KeySets : Frame(deltaTime, keys)
    \/ Shoot
    \/ Reset

Spec == Init /\ [][Next]_vars

(***************************************************************************)
(* The frame loop keeps running: animate asks for the next frame before it *)
(* does anything else, and the clock advances between frames.              *)
(***************************************************************************)
PositiveDeltaTimes == DeltaTimes \ {0}

Tick == \E deltaTime \in PositiveDeltaTimes : Frame(deltaTime, {})

LiveNext ==
    \/ \E deltaTime \in PositiveDeltaTimes, keys \in KeySets : Frame(deltaTime, keys)
    \/ Shoot
    \/ Reset

\* ENABLED <<Tick>>_vars as a state predicate: a frame with no key held
\* changes gameState or ev whenever it changes anything
TickEnabled ==
    \E deltaTime \in PositiveDeltaTimes :
        /\ gameState.isShooting => (flightDt = -1 \/ flightDt = deltaTime)
        /\ \/ animate(gameState, {}, deltaTime) # gameState
           \/ FrameEvents(gameState, {}, deltaTime) # ev

\* weak fairness of Tick, WF_vars(Tick), written out with TickEnabled
LiveSpec == Init /\ [][LiveNext]_vars /\ ([]<>(~TickEnabled) \/ []<><<Tick>>_vars)

(***************************************************************************)
(* Releases alone: the ball is released from positions all over the court  *)
(* (frames of movement held before the shot), at powers from MIN to MAX    *)
(* that include the ideal power of some of the positions.                  *)
(***************************************************************************)
LaunchInputs ==
    { <<x, z, power>> : x \in {-158, -118, -83, 0, 83, 118, 158},
                        z \in {-40, 0, 85},
                        power \in {-500, -489, -345, -219, 0, 625} }

LaunchInit ==
    /\ gameState \in {StartState(frames) : frames \in LaunchInputs}
    /\ ev = NoEvents
    /\ flightDt = -1
    /\ inputFrames = 0
    /\ attemptScores = 0
    /\ attemptMadeFrames = 0
    /\ sinceReset = FALSE

LaunchSpec == LaunchInit /\ [][Shoot]_vars

(***************************************************************************)
(* Flights by the rims: the ball is in flight at and around the center of  *)
(* each rim, inside, on and outside the rim band, above, below and level   *)
(* with the rim, rising or falling, and the frames go on from there; the   *)
(* last x offset puts the ball just behind the plane of the right board.   *)
(***************************************************************************)
RimOffsets ==
    { Vec(x, y, z) : x \in {-16000, 0, 8000, 10370, 10371, 24999, 51500},
                     y \in {-14000, 0, 12129, 16000},
                     z \in {0, 12000} }

RimVelocities == { Vec(0, -3000, 0), Vec(0, 2000, 0), Vec(1500, -2000, 800) }

RimInit ==
    /\ gameState \in
           { [shootBall(InitialGameState) EXCEPT
                 !.ballPosition = Vec(RimPos(hoop).x + offset.x, RimPos(hoop).y + offset.y,
                                      RimPos(hoop).z + offset.z),
                 !.ballVelocity = velocity,
                 !.shotFeedbackTimer = FeedbackTime - TIME_TO_RIM] :
               hoop \in {"right", "left"}, offset \in RimOffsets, velocity \in RimVelocities }
    /\ ev = [NoEvents EXCEPT !.op = "shoot"]
    /\ flightDt = -1
    /\ inputFrames = 0
    /\ attemptScores = 0
    /\ attemptMadeFrames = 0
    /\ sinceReset = FALSE

RimNext == \E deltaTime \in DeltaTimes : Frame(deltaTime, {})

RimSpec == RimInit /\ [][RimNext]_vars

(***************************************************************************)
(* Properties.                                                             *)
(***************************************************************************)

\* C1: within one attempt (from an accepted shoot to the next accepted
\* shoot or reset) a basket is registered at most once, however many frames
\* and whichever hoops meet the made-basket condition.
C1_SingleScorePerAttempt == attemptScores <= 1

\* the made-basket condition was met in two frames of an attempt that
\* registered one basket
C1_Witness == attemptMadeFrames = 2 /\ attemptScores = 1

\* C2: once the feedback countdown has resolved the attempt as missed, a
\* later made-basket condition does not count: score and shotsMade stay and
\* the result does not become made.
C2_LateMakeDoesNotCount ==
    [][gameState.lastShotResult = "missed"
         => /\ gameState'.score = gameState.score
            /\ gameState'.shotsMade = gameState.shotsMade
            /\ gameState'.lastShotResult # "made"]_vars

\* C3: after a reset the ball is back on the ground at once, and no result
\* (made or missed) is produced until the next accepted shoot.
C3_ResetCancelsAttempt ==
    sinceReset => ~gameState.isShooting /\ gameState.lastShotResult = ""

\* C4: isThreePointer is written only by an accepted shoot, from the
\* position of release, never during the flight, at scoring or at reset;
\* a basket is worth 3 or 2 by the position the shot was released from.
C4_ClassifiedAtRelease ==
    [][/\ gameState'.isThreePointer # gameState.isThreePointer => ev'.op = "shoot"
       /\ ev'.op = "shoot" =>
              gameState'.isThreePointer =
                  isThreePointShot(gameState.ballPosition, RimPos(TargetHoop(gameState)))
       /\ gameState'.score # gameState.score =>
              LET origin == [ballPosition |-> gameState.shotOrigin]
                  beyondArc == isThreePointShot(gameState.shotOrigin,
                                                RimPos(TargetHoop(origin)))
              IN gameState'.score - gameState.score = IF beyondArc THEN 3 ELSE 2]_vars

\* a shot released beyond the arc has just scored, in a frame that ends
\* with the ball inside the arc
C4_Witness ==
    /\ ev.scored # {}
    /\ gameState.isThreePointer
    /\ gameState.score = 3
    /\ ~isThreePointShot(gameState.ballPosition, RimPos(TargetHoop(gameState)))

\* C5: at the end of every frame the ball is at or above the floor by its
\* radius, and no collision step after the floor clamp lowers it in the
\* same frame.
C5_AboveFloor ==
    /\ gameState.ballPosition.y >= COURT_FLOOR_Y + BALL_RADIUS
    /\ gameState.isShooting =>
           \A deltaTime \in DeltaTimes :
               LET t == PhysicsTrace(gameState, deltaTime)
               IN /\ t.floored.ballPosition.y >= COURT_FLOOR_Y + BALL_RADIUS
                  /\ t.hoopLeft.ballPosition.y >= t.floored.ballPosition.y

\* a frame in which the floor clamped the ball and a wall bounced it after
C5_Witness == ev.floor /\ ev.wall /\ gameState.ballPosition.y = RestY

\* C6: at the end of every frame, grounded or in flight, the ball is within
\* the court: |x| <= COURT_LENGTH/2 - r and |z| <= COURT_WIDTH/2 - r.
C6_WithinCourt ==
    /\ Abs(gameState.ballPosition.x) <= COURT_LENGTH \div 2 - BALL_RADIUS
    /\ Abs(gameState.ballPosition.z) <= COURT_WIDTH \div 2 - BALL_RADIUS

\* a frame in flight that ends with the ball clamped onto a wall
C6_Witness ==
    /\ ev.wall
    /\ \/ Abs(gameState.ballPosition.x) = COURT_LENGTH \div 2 - BALL_RADIUS
       \/ Abs(gameState.ballPosition.z) = COURT_WIDTH \div 2 - BALL_RADIUS

\* C7: every bounce, of every kind (floor, wall, backboard, rim band),
\* leaves the ball no faster than it met it.
C7_BouncesLoseSpeed == \A b \in ev.bounces : b.after <= b.before

\* C8: a basket is registered only for a ball moving downward (vy < 0):
\* the made-basket condition is never counted for a ball rising or level.
C8_ScoredOnlyDescending ==
    gameState.isShooting =>
        \A deltaTime \in DeltaTimes :
            LET t == PhysicsTrace(gameState, deltaTime)
                counted(before, after) ==
                    \/ after.score # before.score
                    \/ after.shotsMade # before.shotsMade
                    \/ after.lastShotResult # before.lastShotResult
            IN /\ counted(t.boardLeft, t.hoopRight) => t.boardLeft.ballVelocity.y < 0
               /\ counted(t.hoopRight, t.hoopLeft) => t.hoopRight.ballVelocity.y < 0
               /\ ~counted(gameState, t.boardLeft)

\* the ball was inside the scoring disc of a hoop while rising, and the
\* frame registered nothing
C8_Witness == ev.ascending # {} /\ ev.scored = {} /\ gameState.lastShotResult # "made"

\* C9: an accepted shoot adds one to shotAttempts, clears lastShotResult,
\* puts the ball in flight, records the position of release as shotOrigin,
\* starts the feedback countdown at 2.1 s, and leaves score and shotsMade.
C9_ShootEffects ==
    [][ev'.op = "shoot"
         => /\ ~gameState.isShooting
            /\ gameState'.isShooting
            /\ gameState'.shotAttempts = gameState.shotAttempts + 1
            /\ gameState'.lastShotResult = ""
            /\ gameState'.shotOrigin = gameState.ballPosition
            /\ gameState'.ballPosition = gameState.ballPosition
            /\ gameState'.shotFeedbackTimer = 210
            /\ gameState'.score = gameState.score
            /\ gameState'.shotsMade = gameState.shotsMade]_vars

\* a second shot of the behaviour was accepted
C9_Witness ==
    /\ ev.op = "shoot"
    /\ gameState.shotAttempts = 2
    /\ gameState.shotOrigin = gameState.ballPosition

\* C10: while the ball is in flight, held keys and a shoot change nothing:
\* position, velocity and power are as the physics leaves them.  (Reset is
\* the one input honoured in flight.)
C10_InputIgnoredInFlight ==
    gameState.isShooting =>
        /\ shootBall(gameState) = gameState
        /\ \A keys \in KeySets :
               /\ handleInput(gameState, keys) = gameState
               /\ \A deltaTime \in DeltaTimes :
                      animate(gameState, keys, deltaTime)
                          = FeedbackTimeout(PhysicsTrace(gameState, deltaTime).hoopLeft,
                                            deltaTime)

\* the ball is in flight, some frames after its release
C10_Witness ==
    /\ gameState.isShooting
    /\ ev.inFlight
    /\ gameState.shotFeedbackTimer < 210
    /\ gameState.ballPosition # gameState.shotOrigin

\* C11: a registered basket adds exactly 3 to score if the attempt's
\* isThreePointer is true and exactly 2 otherwise, adds exactly 1 to
\* shotsMade and makes the result made; nothing else (a frame without a
\* make, a shoot, a reset, the countdown) changes score or shotsMade.
C11_BasketPoints ==
    [][/\ (gameState'.score # gameState.score \/ gameState'.shotsMade # gameState.shotsMade)
            => ev'.op = "frame" /\ ev'.scored # {}
       /\ (ev'.op = "frame" /\ ev'.scored # {})
            => /\ gameState'.score
                    = gameState.score + (IF gameState.isThreePointer THEN 3 ELSE 2)
               /\ gameState'.shotsMade = gameState.shotsMade + 1
               /\ gameState'.lastShotResult = "made"
               /\ gameState'.isThreePointer = gameState.isThreePointer]_vars

\* a shot from inside the arc has just been registered, for 2 points
C11_Witness ==
    /\ ev.scored # {}
    /\ ~gameState.isThreePointer
    /\ gameState.score = 2
    /\ gameState.shotsMade = 1

\* C12: the countdown reaching zero resolves the attempt as missed exactly
\* when the result is still empty at that moment; an attempt already made
\* stays made; and the missed transition happens at most once per accepted
\* shoot (the countdown, once at or below zero, is restarted only by an
\* accepted shoot).
C12_MissedOnlyIfUnresolved ==
    [][LET expires == gameState.shotFeedbackTimer > 0 /\ gameState'.shotFeedbackTimer <= 0
           becomesMissed == gameState'.lastShotResult = "missed"
                            /\ gameState.lastShotResult # "missed"
           madeByThen == gameState.lastShotResult = "made" \/ ev'.scored # {}
       IN /\ becomesMissed => expires
          /\ expires => /\ ev'.op = "frame"
                        /\ madeByThen => gameState'.lastShotResult = "made"
                        /\ ~madeByThen => gameState'.lastShotResult = "missed"
          /\ (gameState.shotFeedbackTimer <= 0 /\ gameState'.shotFeedbackTimer > 0)
               => ev'.op = "shoot"]_vars

\* the countdown has just expired on an attempt that was made in an earlier
\* frame, and the result is still made
C12_Witness ==
    /\ ev.op = "frame"
    /\ ev.inFlight
    /\ ev.scored = {}
    /\ gameState.shotFeedbackTimer <= 0
    /\ gameState.shotFeedbackTimer > -ev.deltaTime
    /\ gameState.lastShotResult = "made"

\* C14: score, shotAttempts and shotsMade never decrease, and a reset
\* leaves all three as they are.
C14_CountersMonotonic ==
    [][/\ gameState'.score >= gameState.score
       /\ gameState'.shotAttempts >= gameState.shotAttempts
       /\ gameState'.shotsMade >= gameState.shotsMade
       /\ ev'.op = "reset"
            => /\ gameState'.score = gameState.score
               /\ gameState'.shotAttempts = gameState.shotAttempts
               /\ gameState'.shotsMade = gameState.shotsMade]_vars

\* a reset has just happened after a basket was registered
C14_Witness ==
    /\ ev.op = "reset"
    /\ gameState.score > 0
    /\ gameState.shotsMade > 0
    /\ gameState.shotAttempts > 0

\* C15: shotPower is within [MIN_SHOT_POWER, MAX_SHOT_POWER] in every
\* state, whatever keys are held (increase and decrease together, at either
\* bound), and a shot leaves the power as it is.
C15_PowerWithinBounds ==
    /\ gameState.shotPower >= MIN_SHOT_POWER
    /\ gameState.shotPower <= MAX_SHOT_POWER
    /\ \A keys \in PowerKeySets :
           /\ handleInput(gameState, keys).shotPower >= MIN_SHOT_POWER
           /\ handleInput(gameState, keys).shotPower <= MAX_SHOT_POWER
    /\ shootBall(gameState).shotPower = gameState.shotPower
    /\ resetBall(gameState).shotPower >= MIN_SHOT_POWER
    /\ resetBall(gameState).shotPower <= MAX_SHOT_POWER

\* a frame with KeyW held at the upper bound has left the power there
C15_Witness ==
    /\ ev.op = "frame"
    /\ inputFrames >= 1
    /\ ~gameState.isShooting
    /\ gameState.shotAttempts = 0
    /\ gameState.shotPower = MAX_SHOT_POWER

\* C16: a physics step while the ball is not in flight changes nothing,
\* for any deltaTime: position, velocity, result, score, shotAttempts and
\* shotsMade stay (no gravity, no collision tests, no scoring).
C16_GroundedPhysicsNoOp ==
    ~gameState.isShooting =>
        \A deltaTime \in DeltaTimes :
            updateBallPhysics(gameState, deltaTime) = gameState

\* a grounded frame has run on a ball that came to rest after a flight
C16_Witness ==
    /\ ev.op = "frame"
    /\ ~ev.inFlight
    /\ ~gameState.isShooting
    /\ gameState.shotAttempts > 0
    /\ gameState.ballPosition # Vec(0, RestY, 0)

\* C13: every released shot is eventually resolved: with frames of positive
\* deltaTime going on, and unless a reset or a new accepted shoot comes
\* first, the result becomes made or missed, at the latest on the frame
\* where the deltaTime accumulated since the release reaches the countdown
\* of 2.1 s (each frame takes its deltaTime off the countdown, and an
\* attempt whose countdown is at or below zero has a result).
C13_EventuallyResolved ==
    /\ \A n \in 1..MaxAttempts :
           (ev.op = "shoot" /\ gameState.shotAttempts = n)
               ~> \/ gameState.lastShotResult # ""
                  \/ ev.op = "reset"
                  \/ gameState.shotAttempts > n
    /\ [](~sinceReset /\ gameState.shotAttempts > 0 /\ gameState.shotFeedbackTimer <= 0
             => gameState.lastShotResult # "")
    /\ [][ev'.op = "frame" /\ gameState.shotFeedbackTimer > 0
            => \E deltaTime \in PositiveDeltaTimes :
                   /\ gameState'.shotFeedbackTimer = gameState.shotFeedbackTimer - deltaTime
                   /\ ev'.inFlight => deltaTime = ev'.deltaTime]_vars

\* the countdown has just resolved, as missed, a shot still in flight
C13_Witness ==
    /\ ev.op = "frame"
    /\ ev.inFlight
    /\ gameState.isShooting
    /\ ~sinceReset
    /\ gameState.shotFeedbackTimer <= 0
    /\ gameState.shotFeedbackTimer > -ev.deltaTime
    /\ gameState.lastShotResult = "missed"

\* C17: isThreePointShot is true exactly when the horizontal distance from
\* the origin to the hoop is at least 6.75 and either |origin.z| is at most
\* COURT_WIDTH / 2 - 0.9 or |origin.x - hoop.x| is at least 6.75: for the
\* position of the ball and the origin of the shot in flight, and for origins
\* in front of each hoop up to the corners; 7.0 straight in front of the
\* hoop is a three-pointer, anything closer than 6.75 a two-pointer.
C17_ThreePointRule ==
    LET claimed(origin, hoopPos) ==
            /\ HorizontalDistSqMm(origin, hoopPos) >= 6750 * 6750
            /\ \/ Abs(origin.z) <= COURT_WIDTH \div 2 - 90000
               \/ Abs(origin.x - hoopPos.x) >= 675000
        inFront(hoop, dx, z) == Vec(RimPos(hoop).x - HoopSide(hoop) * dx, RestY, z)
    IN /\ \A hoop \in {"right", "left"} :
             /\ isThreePointShot(gameState.ballPosition, RimPos(hoop))
                    = claimed(gameState.ballPosition, RimPos(hoop))
             /\ \A dx \in {0, 100000, 300000, 674900, 675000, 700000, 1200000} :
                    \A z \in {0, 300000, -660000, 660000, 660100, -700000, 730000} :
                        isThreePointShot(inFront(hoop, dx, z), RimPos(hoop))
                            = claimed(inFront(hoop, dx, z), RimPos(hoop))
             /\ isThreePointShot(inFront(hoop, 700000, 0), RimPos(hoop))
             /\ \A dx \in {0, 300000, 674900} :
                    ~isThreePointShot(inFront(hoop, dx, 0), RimPos(hoop))
       /\ gameState.isShooting =>
              gameState.isThreePointer =
                  claimed(gameState.shotOrigin,
                          RimPos(TargetHoop([ballPosition |-> gameState.shotOrigin])))

\* a shot has just been released from beyond the arc and is classified a
\* three-pointer
C17_Witness ==
    /\ ev.op = "shoot"
    /\ gameState.isThreePointer
    /\ HorizontalDistSqMm(gameState.shotOrigin,
                          RimPos(TargetHoop([ballPosition |-> gameState.shotOrigin])))
           >= 6750 * 6750

\* C18: for the same ball position and shot power, the launch velocity the
\* trajectory predictor computes equals the launch velocity shootBall gives
\* the ball: while the ball is on the ground (when the predictor runs), and
\* right after a release, for the ball shootBall has just launched.
C18_PredictorMatchesShot ==
    /\ ~gameState.isShooting =>
           PredictedVelocity(gameState.ballPosition, gameState.shotPower,
                             RimPos(TargetHoop(gameState)))
               = shootBall(gameState).ballVelocity
    /\ ev.op = "shoot" =>
           PredictedVelocity(gameState.shotOrigin, gameState.shotPower,
                             RimPos(TargetHoop([ballPosition |-> gameState.shotOrigin])))
               = gameState.ballVelocity

\* C19: a shot released with shotPower equal to the ideal power of its
\* distance, MIN + min(1, distance / 25) * (MAX - MIN), has error factor
\* exactly 1 and a launch velocity with vx*T = toHoop.x, vz*T = toHoop.z and
\* vy*T + g*T*T/2 = toHoop.y for T = 1.6 (up to the rounding of the
\* velocity), so that the point reached at time T under gravity is within
\* RIM_RADIUS of the rim center; at any other power all three components
\* are those of the ideal shot times 1 + (power - idealPower) * 0.4.
C19_IdealShotReachesRim ==
    LET origin == IF gameState.isShooting THEN gameState.shotOrigin
                  ELSE gameState.ballPosition
        target == RimPos(TargetHoop([ballPosition |-> origin]))
        toHoop == Vec(target.x - origin.x, target.y - origin.y, target.z - origin.z)
        distance == 100 * Sqrt(HorizontalDistSqMm(target, origin))
        idealPower == 1000 + TruncDiv(Min(2500000, distance) * 9, 2500)
        ideal == LaunchVelocity(origin, idealPower, target)
        missX == ideal.x * 160 - toHoop.x
        missY == TruncDiv(2 * ideal.y * 160 + GRAVITY * 160 * 160 - 2 * toHoop.y, 2)
        missZ == ideal.z * 160 - toHoop.z
        factor == 10000 + TruncDiv((gameState.shotPower - idealPower) * 4, 10)
    IN /\ ErrorFactor(idealPower, distance) = 10000
       /\ Abs(missX) < 160 /\ Abs(missY) < 160 /\ Abs(missZ) < 160
       /\ missX * missX + missY * missY + missZ * missZ < RIM_RADIUS * RIM_RADIUS
       /\ ev.op = "shoot" =>
              /\ gameState.shotPower = idealPower => gameState.ballVelocity = ideal
              /\ gameState.ballVelocity = Vec(TruncDiv(ideal.x * factor, 10000),
                                              TruncDiv(ideal.y * factor, 10000),
                                              TruncDiv(ideal.z * factor, 10000))

\* a shot has just been released at the ideal power of its distance
C19_Witness ==
    /\ ev.op = "shoot"
    /\ gameState.ballVelocity # ZeroVec
    /\ gameState.shotPower =
           IdealPower(100 * Sqrt(HorizontalDistSqMm(
               RimPos(TargetHoop([ballPosition |-> gameState.shotOrigin])),
               gameState.shotOrigin)))

\* C20: the rim-band bounce, the only place where a collision normal is
\* normalized and the velocity reflected on it, is never executed for a
\* ball whose horizontal offset from the center of that rim is zero; for
\* such a ball the rim logic leaves the velocity unchanged.  This holds for
\* the ball as each state has it and as the hoop tests of the next frame
\* meet it.
C20_NoBounceAtRimCenter ==
    LET atCenter(g, hoop) ==
            /\ g.ballPosition.x = RimPos(hoop).x
            /\ g.ballPosition.z = RimPos(hoop).z
        guarded(g, hoop) ==
            /\ RimBand(g, hoop) => ~atCenter(g, hoop)
            /\ atCenter(g, hoop) => HoopStep(g, hoop).ballVelocity = g.ballVelocity
    IN gameState.isShooting =>
           /\ \A hoop \in {"right", "left"} : guarded(gameState, hoop)
           /\ \A deltaTime \in DeltaTimes :
                  /\ guarded(PhysicsTrace(gameState, deltaTime).boardLeft, "right")
                  /\ guarded(PhysicsTrace(gameState, deltaTime).hoopRight, "left")

\* the hoop tests have just met a rising ball at the very center of a rim,
\* level with it, and left its velocity alone
C20_Witness ==
    /\ ev.op = "frame"
    /\ ev.inFlight
    /\ ev.deltaTime = 0
    /\ ev.rim = {}
    /\ ev.made = {}
    /\ \E hoop \in {"right", "left"} :
           gameState.ballPosition = RimPos(hoop)
    /\ gameState.ballVelocity = Vec(0, 2000, 0)

\* C21: a frame handles the input, then integrates and resolves the
\* collisions, then handles the feedback countdown; so when the made-basket
\* condition is met in the frame in which the countdown of an unresolved
\* attempt reaches zero, the attempt is made by the time the countdown is
\* looked at, the frame ends with it made, and no phase of the frame marks
\* it missed.
C21_MakeBeatsExpiry ==
    [][/\ ev'.op = "frame"
       /\ ev'.made # {}
       /\ gameState.lastShotResult = ""
       /\ gameState.shotFeedbackTimer > 0
       /\ gameState'.shotFeedbackTimer <= 0
       => LET phases == AnimatePhases(gameState, {}, ev'.deltaTime)
              integrated == PhysicsTrace(phases[1], ev'.deltaTime)
          IN /\ phases[1] = gameState
             /\ phases[2] = integrated.hoopLeft
             /\ phases[2].lastShotResult = "made"
             /\ phases[2].shotFeedbackTimer = gameState.shotFeedbackTimer
             /\ phases[3] = gameState'
             /\ \A i \in 1..3 : phases[i].lastShotResult # "missed"
             /\ gameState'.lastShotResult = "made"]_vars

\* an attempt has been made in the very frame in which its countdown ran out
C21_Witness ==
    /\ ev.op = "frame"
    /\ ev.scored # {}
    /\ attemptMadeFrames = 1
    /\ gameState.lastShotResult = "made"
    /\ gameState.shotFeedbackTimer <= 0
    /\ gameState.shotFeedbackTimer > -ev.deltaTime

\* C22: the ball position, the ball velocity and the shot power reached
\* after a given elapsed time do not depend on how the time is divided into
\* frames: two frames of 0.05 s give what one frame of 0.1 s gives, on the
\* ground with any keys held, and in flight when no frame meets a collision.
C22_FrameRateIndependent ==
    LET same(a, b) ==
            /\ a.ballPosition = b.ballPosition
            /\ a.ballVelocity = b.ballVelocity
            /\ a.shotPower = b.shotPower
        free(g, deltaTime) ==
            PhysicsTrace(g, deltaTime).hoopLeft = Integrate(g, deltaTime)
    IN /\ ~gameState.isShooting =>
              \A keys \in KeySets :
                  same(animate(animate(gameState, keys, 5), keys, 5),
                       animate(gameState, keys, 10))
       /\ /\ gameState.isShooting
          /\ free(gameState, 5)
          /\ free(Integrate(gameState, 5), 5)
          /\ free(gameState, 10)
          => same(updateBallPhysics(updateBallPhysics(gameState, 5), 5),
                  updateBallPhysics(gameState, 10))

\* C23: every registered made basket creates a score explosion at the rim,
\* of 75 particles for a three-pointer and 50 for a two-pointer, so that
\* there are more live particles after it than before.
C23_ScoreExplosion ==
    ev.scored # {} =>
        \A particles \in {0, 5} :
            LET after == createScoreExplosion(particles, gameState.isThreePointer)
            IN /\ after = particles + (IF gameState.isThreePointer THEN 75 ELSE 50)
               /\ after > particles

\* C24: every shot terminates physically: at any fixed positive frame
\* period a ball in flight eventually has a floor bounce that meets the rest
\* condition and leaves it at rest, not in flight, without a reset.  A frame
\* is a function of the state and of its period, so a flight that comes
\* back to a state it was in stays in flight for ever: no frame, and no two
\* frames, of a flight in progress may leave the state as it was.
C24_FlightComesToRest ==
    gameState.isShooting /\ flightDt > 0 =>
        LET next == animate(gameState, {}, flightDt)
        IN /\ next # gameState
           /\ next.isShooting => animate(next, {}, flightDt) # gameState

\* C25 as stated: on a frame in flight where, after the integration,
\* position.y <= COURT_FLOOR_Y + BALL_RADIUS + 0.01, the floor sets
\* position.y to exactly that height, makes velocity.y -velocity.y * 0.7 and
\* multiplies velocity.x and velocity.z by 0.7, and a bounce is emitted;
\* where position.y is above, none of these happens.
C25_FloorBounceAsStated ==
    gameState.isShooting =>
        \A deltaTime \in DeltaTimes :
            LET before == PhysicsTrace(gameState, deltaTime).integrated
                after == PhysicsTrace(gameState, deltaTime).floored
                v == before.ballVelocity
            IN IF before.ballPosition.y <= COURT_FLOOR_Y + BALL_RADIUS + 1000
               THEN /\ after.ballPosition = Vec(before.ballPosition.x,
                                                 COURT_FLOOR_Y + BALL_RADIUS + 1000,
                                                 before.ballPosition.z)
                    /\ after.ballVelocity = Vec(TruncDiv(v.x * 70, 100),
                                                 TruncDiv(-v.y * 70, 100),
                                                 TruncDiv(v.z * 70, 100))
                    /\ PhysicsEvents(PhysicsTrace(gameState, deltaTime), deltaTime).floor
               ELSE /\ after = before
                    /\ ~PhysicsEvents(PhysicsTrace(gameState, deltaTime), deltaTime).floor

\* C25, amended: the same, except that a bounce whose damped velocity meets
\* the rest condition (|velocity.y| < 0.1 and speed < 0.5) leaves the
\* velocity zero and the ball out of flight.
C25_FloorBounce ==
    gameState.isShooting =>
        \A deltaTime \in DeltaTimes :
            LET before == PhysicsTrace(gameState, deltaTime).integrated
                after == PhysicsTrace(gameState, deltaTime).floored
                v == before.ballVelocity
                damped == Vec(TruncDiv(v.x * 70, 100), TruncDiv(-v.y * 70, 100),
                              TruncDiv(v.z * 70, 100))
                rests == /\ Abs(damped.y) < 100
                         /\ Abs(damped.x) < 500
                         /\ Abs(damped.z) < 500
                         /\ damped.x * damped.x + damped.y * damped.y
                                + damped.z * damped.z < 500 * 500
            IN IF before.ballPosition.y <= COURT_FLOOR_Y + BALL_RADIUS + 1000
               THEN /\ after.ballPosition = Vec(before.ballPosition.x,
                                                 COURT_FLOOR_Y + BALL_RADIUS + 1000,
                                                 before.ballPosition.z)
                    /\ after.ballVelocity = IF rests THEN ZeroVec ELSE damped
                    /\ after.isShooting = ~rests
                    /\ PhysicsEvents(PhysicsTrace(gameState, deltaTime), deltaTime).floor
               ELSE /\ after = before
                    /\ ~PhysicsEvents(PhysicsTrace(gameState, deltaTime), deltaTime).floor

\* after floor bounces that left the ball in flight, a floor bounce has
\* just met the rest condition
C25_Witness ==
    /\ ev.op = "frame"
    /\ ev.inFlight
    /\ ev.floor
    /\ ~gameState.isShooting
    /\ gameState.ballPosition.y = RestY
    /\ gameState.ballVelocity = ZeroVec
    /\ gameState.ballPosition.x # gameState.shotOrigin.x

\* C26: for a hoop on a frame the made-basket test comes before the rim
\* band: whenever the ball is inside the scoring disc of a hoop, within
\* BALL_RADIUS of its height and descending, the hoop test of that hoop
\* neither reflects the velocity, nor pops it upward, nor moves the ball,
\* also where the disc and the band overlap and also when the attempt is
\* made already; this holds for the ball as each state has it and as the
\* hoop tests of the next frame meet it.
C26_MadeBeforeRim ==
    LET untouched(g, hoop) ==
            MadeBasket(g, hoop) =>
                /\ HoopStep(g, hoop).ballVelocity = g.ballVelocity
                /\ HoopStep(g, hoop).ballPosition = g.ballPosition
                /\ HoopStep(g, hoop).lastShotResult = "made"
    IN gameState.isShooting =>
           /\ \A hoop \in {"right", "left"} : untouched(gameState, hoop)
           /\ \A deltaTime \in DeltaTimes :
                  /\ untouched(PhysicsTrace(gameState, deltaTime).boardLeft, "right")
                  /\ untouched(PhysicsTrace(gameState, deltaTime).hoopRight, "left")

\* the made-basket condition has just been met again, by an attempt made
\* already, with the ball where the scoring disc and the rim band overlap,
\* and there was no rim bounce
C26_Witness ==
    /\ ev.op = "frame"
    /\ ev.made # {}
    /\ ev.scored = {}
    /\ ev.rim = {}
    /\ gameState.lastShotResult = "made"
    /\ \E hoop \in ev.made : MadeBasket(gameState, hoop) /\ RimBand(gameState, hoop)

\* C27: a rim-band bounce leaves the ball at horizontal distance
\* RIM_RADIUS + BALL_RADIUS + 0.01 from the center of that rim (to within
\* the rounding of the unit normal, 5 units of 1e-5 m), which is beyond
\* RIM_RADIUS + rimThickness, so the band test of that hoop is false on the
\* new position, and leaves velocity.y at 0.5 m/s or more; this holds for
\* the ball as each state has it and as the hoop tests of the next frame
\* meet it.
C27_RimBounceLeavesBand ==
    LET target == RIM_RADIUS + BALL_RADIUS + 1000
        clear(g, hoop) ==
            (NearRim(g, hoop) /\ ~MadeBasket(g, hoop) /\ RimBand(g, hoop)) =>
                LET after == HoopStep(g, hoop)
                    d == Sqrt(RimDistSq(after, hoop))
                IN /\ after = RimBounce(g, hoop)
                   /\ d >= target - 5
                   /\ d <= target + 5
                   /\ d > RIM_RADIUS + rimThickness
                   /\ ~RimBand(after, hoop)
                   /\ after.ballVelocity.y >= 500
                   /\ after.ballPosition.y = g.ballPosition.y
    IN gameState.isShooting =>
           /\ \A hoop \in {"right", "left"} : clear(gameState, hoop)
           /\ \A deltaTime \in DeltaTimes :
                  /\ clear(PhysicsTrace(gameState, deltaTime).boardLeft, "right")
                  /\ clear(PhysicsTrace(gameState, deltaTime).hoopRight, "left")

\* a frame has just bounced the ball off a rim band: the ball is in flight
\* outside the band of that rim and moving upward
C27_Witness ==
    /\ ev.op = "frame"
    /\ ev.rim # {}
    /\ gameState.isShooting
    /\ gameState.ballVelocity.y >= 500
    /\ \A hoop \in ev.rim :
           /\ Abs(gameState.ballPosition.x - RimPos(hoop).x) <= RIM_RADIUS + BALL_RADIUS + 1005
           /\ Abs(gameState.ballPosition.z - RimPos(hoop).z) <= RIM_RADIUS + BALL_RADIUS + 1005
           /\ ~RimBand(gameState, hoop)
           /\ RimDistSq(gameState, hoop) > (RIM_RADIUS + rimThickness) * (RIM_RADIUS + rimThickness)

\* C28: when the backboard test of a hoop meets the ball within the
\* board's height and width windows (half-extent plus BALL_RADIUS) and
\* within backboardThickness/2 + BALL_RADIUS of the board plane along x,
\* it puts the ball at exactly that distance from the plane on the side
\* where it is, replaces velocity.x by -velocity.x * BOUNCE_DAMPING *
\* BACKBOARD_DAMP_FACTOR, and leaves velocity.y and velocity.z with their
\* sign and no larger than they were, y and z of the position unchanged;
\* and the test of the left hoop is the mirror image under x -> -x of the
\* test of the right hoop.  This holds for the ball as each state has it
\* and as the backboard tests of the next frame meet it.
C28_BackboardResolution ==
    LET Mirror(g) ==
            [g EXCEPT !.ballPosition = Vec(-g.ballPosition.x, g.ballPosition.y, g.ballPosition.z),
                      !.ballVelocity = Vec(-g.ballVelocity.x, g.ballVelocity.y, g.ballVelocity.z)]
        Other(hoop) == IF hoop = "right" THEN "left" ELSE "right"
        reduced(before, after) ==
            /\ before > 0 => (after >= 0 /\ after < before)
            /\ before < 0 => (after <= 0 /\ after > before)
            /\ before = 0 => after = 0
        resolved(g, hoop) ==
            LET b == BackboardPos(hoop)
                p == g.ballPosition
                v == g.ballVelocity
                after == BackboardStep(g, hoop)
                within ==
                    /\ Abs(p.y - b.y) <= BACKBOARD_HEIGHT \div 2 + BALL_RADIUS
                    /\ Abs(p.z - b.z) <= BACKBOARD_WIDTH \div 2 + BALL_RADIUS
                    /\ Abs(p.x - b.x) <= backboardThickness \div 2 + BALL_RADIUS
            IN /\ within =>
                    /\ Abs(after.ballPosition.x - b.x) = backboardThickness \div 2 + BALL_RADIUS
                    /\ p.x < b.x => after.ballPosition.x < b.x
                    /\ p.x > b.x => after.ballPosition.x > b.x
                    /\ after.ballPosition.y = p.y
                    /\ after.ballPosition.z = p.z
                    /\ after.ballVelocity.x
                           = TruncDiv(-v.x * BOUNCE_DAMPING * BACKBOARD_DAMP_FACTOR, 10000)
                    /\ reduced(v.y, after.ballVelocity.y)
                    /\ reduced(v.z, after.ballVelocity.z)
               /\ BackboardStep(Mirror(g), Other(hoop)) = Mirror(after)
    IN gameState.isShooting =>
           /\ \A hoop \in {"right", "left"} : resolved(gameState, hoop)
           /\ \A deltaTime \in DeltaTimes :
                  /\ resolved(PhysicsTrace(gameState, deltaTime).walled, "right")
                  /\ resolved(PhysicsTrace(gameState, deltaTime).boardRight, "left")

\* a frame has just bounced the ball off a backboard: the ball is in
\* flight at the threshold distance from that board, inside its windows
C28_Witness ==
    /\ ev.op = "frame"
    /\ ev.backboard # {}
    /\ gameState.isShooting
    /\ \A hoop \in ev.backboard :
           /\ Abs(gameState.ballPosition.x - BackboardPos(hoop).x) = collisionThreshold
           /\ BackboardHit(gameState, hoop)

\* C29: whenever the ball is not in flight (at the start, after it has
\* come to rest on the floor, after a reset, while the arrow keys move it)
\* its velocity is the zero vector and position.y is the rest height
\* COURT_FLOOR_Y + BALL_RADIUS + LINES_Y_OFFSET; and the input of a frame
\* on the ground leaves position.y, the velocity and the flight flag as
\* they are, whichever keys are held.
C29_GroundedAtRest ==
    ~gameState.isShooting =>
        /\ gameState.ballVelocity = ZeroVec
        /\ gameState.ballPosition.y = RestY
        /\ \A keys \in KeySets \cup PowerKeySets :
               LET moved == handleInput(gameState, keys)
               IN /\ moved.ballPosition.y = RestY
                  /\ moved.ballVelocity = ZeroVec
                  /\ ~moved.isShooting

\* a flight released at z = 0 has ended on the floor, without a reset, and
\* a frame on the ground has since moved the ball across the court
C29_Witness ==
    /\ ev.op = "frame"
    /\ ~ev.inFlight
    /\ ~gameState.isShooting
    /\ ~sinceReset
    /\ gameState.shotAttempts >= 1
    /\ gameState.shotOrigin.z = 0
    /\ gameState.ballPosition.z # 0
    /\ gameState.ballPosition.y = RestY
    /\ gameState.ballVelocity = ZeroVec

\* C30: in every reachable state, whatever the order of shoots, resets,
\* frames and expiries of the countdown, shotsMade <= shotAttempts and
\* 2 * shotsMade <= score <= 3 * shotsMade, and the accuracy that
\* updateScore shows for these counters, round(100 * made / attempts),
\* lies in 0..100.
C30_CountersConsistent ==
    LET accuracy == updateScoreAccuracy(gameState.shotAttempts, gameState.shotsMade)
    IN /\ gameState.shotsMade >= 0
       /\ gameState.shotsMade <= gameState.shotAttempts
       /\ 2 * gameState.shotsMade <= gameState.score
       /\ gameState.score <= 3 * gameState.shotsMade
       /\ accuracy >= 0
       /\ accuracy <= 100
       /\ gameState.shotAttempts > 0 =>
              /\ 2 * gameState.shotAttempts * accuracy
                     <= 200 * gameState.shotsMade + gameState.shotAttempts
              /\ 2 * gameState.shotAttempts * (accuracy + 1)
                     > 200 * gameState.shotsMade + gameState.shotAttempts

\* a reset has followed an attempt that scored: the result is cleared,
\* the counters stand at one basket for one attempt, accuracy 100
C30_Witness ==
    /\ ev.op = "reset"
    /\ sinceReset
    /\ gameState.shotAttempts = 1
    /\ gameState.shotsMade = 1
    /\ gameState.score \in {2, 3}
    /\ gameState.lastShotResult = ""
    /\ updateScoreAccuracy(gameState.shotAttempts, gameState.shotsMade) = 100

=============================================================================
